---- MODULE Spec2Model ----
(***************************************************************************)
(* Model of packages/desktop/src-tauri/src/cli.rs: the sidecar CLI         *)
(* install path resolver, the installer (install_cli), the version sync    *)
(* policy (sync_cli) and the config reader (get_config).                   *)
(*                                                                         *)
(* Rust strings and byte buffers are sequences of one-character strings,   *)
(* so that joining, trimming, formatting and parsing are computed and not  *)
(* assumed.                                                                *)
(***************************************************************************)
EXTENDS Integers, Sequences, FiniteSets, TLC

VARIABLES
    home,        \* the HOME environment variable of the process
    fs,          \* the paths that exist on disk
    debug,       \* cfg!(debug_assertions) of the build
    unix,        \* cfg!(unix) of the build
    appVersion,  \* app.package_info().version
    pc,          \* position of the running entry point
    entry,       \* which entry point is running: "none", "sync", "install"
    cliPath,     \* sync_cli: cli_path
    output,      \* sync_cli: output of `<cli_path> --version`
    cliVersion,  \* sync_cli: cli_version
    decision,    \* sync_cli: the SyncDecision taken
    syncResult,  \* sync_cli: the returned Result<(), String>
    sidecar,     \* install_cli: what the sidecar resolution found
    scriptOut,   \* install_cli: output of the installer script
    removeOk,    \* install_cli: whether remove_file succeeded
    instResult,  \* install_cli: the returned Result<String, String>
    trace,       \* the side effects of the running call, in order
    pathRes,     \* last value returned by get_cli_install_path
    installedRes,\* last value returned by is_cli_installed
    prevInstalled,\* the value is_cli_installed returned the call before
    pcPath,      \* position of the path resolver's caller
    sidecarRun,  \* get_config: what running the sidecar produced
    configRes,   \* get_config: the returned Option<Config>
    pcConfig,    \* position of get_config's caller
    shell,       \* the SHELL environment variable of the process
    invoke,      \* create_command: the command built and what running it did
    peers        \* concurrent install_cli invocations sharing one temp dir

vars == <<home, fs, debug, unix, appVersion, pc, entry, cliPath, output,
          cliVersion, decision, syncResult, sidecar, scriptOut, removeOk,
          instResult, trace, pathRes, installedRes, prevInstalled, pcPath,
          sidecarRun, configRes, pcConfig, shell, invoke, peers>>

syncVars == <<debug, unix, appVersion, pc, entry, cliPath, output, cliVersion,
              decision, syncResult, sidecar, scriptOut, removeOk, instResult,
              trace>>

pathVars == <<pathRes, installedRes, prevInstalled, pcPath>>

configVars == <<sidecarRun, configRes, pcConfig>>

cmdVars == <<shell, invoke>>

peerVars == <<peers>>

(***************************************************************************)
(* Bounds of the model.                                                    *)
(***************************************************************************)
\* Largest major version number of the versions explored.
MaxNum == 1

\* Longest HOME value explored by the path resolver's specification.
MaxHomeLen == 2

\* Most paths that exist on disk at once in the path resolver's specification.
MaxFiles == 1

(***************************************************************************)
(* Strings.                                                                *)
(***************************************************************************)
Digits == <<"0", "1", "2", "3", "4", "5", "6", "7", "8", "9">>

Upper == <<"A", "B", "C", "D", "E", "F", "G", "H", "I", "J", "K", "L", "M",
           "N", "O", "P", "Q", "R", "S", "T", "U", "V", "W", "X", "Y", "Z">>

Lower == <<"a", "b", "c", "d", "e", "f", "g", "h", "i", "j", "k", "l", "m",
           "n", "o", "p", "q", "r", "s", "t", "u", "v", "w", "x", "y", "z">>

\* The characters of a semver identifier, in ASCII order.
IdentChars == <<"-">> \o Digits \o Upper \o Lower

Range(s) == {s[i] : i \in DOMAIN s}

IsDigit(c) == c \in Range(Digits)

IsIdentChar(c) == c \in Range(IdentChars)

\* char::is_whitespace, for the characters the model uses.
IsWhitespace(c) == c \in {" ", "\n", "\t", "\r"}

\* The byte that is not valid UTF-8, and what from_utf8_lossy makes of it.
BadByte == "xFF"

ReplacementChar == "uFFFD"

\* String::from_utf8_lossy
FromUtf8Lossy(bytes) ==
    [i \in DOMAIN bytes |-> IF bytes[i] = BadByte THEN ReplacementChar ELSE bytes[i]]

RECURSIVE TrimStart(_)
TrimStart(s) ==
    IF s # <<>> /\ IsWhitespace(Head(s)) THEN TrimStart(Tail(s)) ELSE s

RECURSIVE TrimEnd(_)
TrimEnd(s) ==
    IF s # <<>> /\ IsWhitespace(s[Len(s)])
    THEN TrimEnd(SubSeq(s, 1, Len(s) - 1))
    ELSE s

\* str::trim
Trim(s) == TrimEnd(TrimStart(s))

\* The strings over alphabet of length at most n.
RECURSIVE StringsUpTo(_, _)
StringsUpTo(alphabet, n) ==
    IF n = 0 THEN {<<>>}
    ELSE LET shorter == StringsUpTo(alphabet, n - 1)
         IN  shorter \cup {Append(s, c) : s \in shorter, c \in alphabet}

(***************************************************************************)
(* Environment and paths.                                                  *)
(***************************************************************************)
\* const CLI_INSTALL_DIR
CLI_INSTALL_DIR == <<".", "o", "p", "e", "n", "c", "o", "d", "e", "/", "b", "i", "n">>

\* const CLI_BINARY_NAME
CLI_BINARY_NAME == <<"o", "p", "e", "n", "c", "o", "d", "e">>

\* Result of std::env::var: Ok(value), Err(NotPresent) or Err(NotUnicode).
VarOk(s) == [tag |-> "Ok", val |-> s]

VarNotPresent == [tag |-> "NotPresent", val |-> <<>>]

VarNotUnicode == [tag |-> "NotUnicode", val |-> <<>>]

\* Option<T>
Some(x) == [some |-> TRUE, val |-> x]

None == [some |-> FALSE, val |-> <<>>]

\* Result<T, String>
Ok(x) == [ok |-> TRUE, val |-> x]

Err(msg, arg) == [ok |-> FALSE, val |-> <<msg, arg>>]

NoResult == [ok |-> FALSE, val |-> <<"pending", <<>>>>]

\* Mutant of PathBuf::join: format!("{}/{}", base, comp), a separator always.
PathJoin_AlwaysSeparator(base, comp) == base \o <<"/">> \o comp

\* PathBuf::join on a Unix-family target: an absolute component replaces the
\* base; otherwise a separator is added unless the base is empty or already
\* ends in one.
PathJoin(base, comp) ==
    IF comp # <<>> /\ Head(comp) = "/" THEN comp
    ELSE IF base # <<>> /\ base[Len(base)] # "/" THEN base \o <<"/">> \o comp
    ELSE base \o comp

\* fn get_cli_install_path() -> Option<PathBuf>
GetCliInstallPath(h) ==
    IF h.tag = "Ok"
    THEN Some(PathJoin(PathJoin(h.val, CLI_INSTALL_DIR), CLI_BINARY_NAME))
    ELSE None

\* The path with each run of separators collapsed to one, as the kernel
\* resolves it.
RECURSIVE CollapseSeparators(_)
CollapseSeparators(path) ==
    IF Len(path) < 2 THEN path
    ELSE IF path[1] = "/" /\ path[2] = "/" THEN CollapseSeparators(Tail(path))
    ELSE <<path[1]>> \o CollapseSeparators(Tail(path))

\* Path::exists; the disk holds collapsed paths.
PathExists(path, disk) == CollapseSeparators(path) \in disk

\* Mutant of is_cli_installed: .unwrap_or(true), an unresolvable path counts
\* as installed.
IsCliInstalled_DefaultTrue(h, disk) ==
    LET p == GetCliInstallPath(h)
    IN  IF p.some THEN PathExists(p.val, disk) ELSE TRUE

\* Mutant of is_cli_installed: an installation seen once is remembered.
IsCliInstalled_Cached(h, disk) ==
    LET p == GetCliInstallPath(h)
    IN  installedRes \/ (IF p.some THEN PathExists(p.val, disk) ELSE FALSE)

\* fn is_cli_installed() -> bool
IsCliInstalled(h, disk) ==
    LET p == GetCliInstallPath(h)
    IN  IF p.some THEN PathExists(p.val, disk) ELSE FALSE

(***************************************************************************)
(* Semantic versions: semver::Version as sync_cli uses it.                 *)
(***************************************************************************)
Version(major, minor, patch, pre, build) ==
    [major |-> major, minor |-> minor, patch |-> patch, pre |-> pre, build |-> build]

\* Length of the longest prefix of s whose characters satisfy allowed.
RECURSIVE PrefixLen(_, _)
PrefixLen(s, allowed) ==
    IF s # <<>> /\ Head(s) \in allowed THEN 1 + PrefixLen(Tail(s), allowed) ELSE 0

DropFirst(s, n) == SubSeq(s, n + 1, Len(s))

\* str::split(sep): the segments between separators, empty ones included.
RECURSIVE Split(_, _)
Split(s, sep) ==
    LET n == PrefixLen(s, Range(s) \ {sep})
    IN  IF n = Len(s) THEN <<s>>
        ELSE <<SubSeq(s, 1, n)>> \o Split(DropFirst(s, n + 1), sep)

RECURSIVE JoinWith(_, _)
JoinWith(segs, sep) ==
    IF segs = <<>> THEN <<>>
    ELSE IF Len(segs) = 1 THEN segs[1]
    ELSE segs[1] \o <<sep>> \o JoinWith(Tail(segs), sep)

DigitValue(c) == (CHOOSE i \in DOMAIN Digits : Digits[i] = c) - 1

RECURSIVE DecimalValue(_)
DecimalValue(s) ==
    IF s = <<>> THEN 0
    ELSE 10 * DecimalValue(SubSeq(s, 1, Len(s) - 1)) + DigitValue(s[Len(s)])

\* Display of an unsigned integer.
RECURSIVE FormatNat(_)
FormatNat(n) ==
    IF n < 10 THEN <<Digits[n + 1]>>
    ELSE FormatNat(n \div 10) \o <<Digits[(n % 10) + 1]>>

AllDigits(s) == \A i \in DOMAIN s : IsDigit(s[i])

HasLeadingZero(s) == Len(s) > 1 /\ s[1] = "0"

\* A numeric field of the version core: digits, no leading zero.
NumericIdentifier(s) ==
    LET n == PrefixLen(s, Range(Digits))
        d == SubSeq(s, 1, n)
    IN  IF n = 0 \/ HasLeadingZero(d)
        THEN [ok |-> FALSE, val |-> 0, rest |-> s]
        ELSE [ok |-> TRUE, val |-> DecimalValue(d), rest |-> DropFirst(s, n)]

\* The dot that must follow major and minor.
Dot(r) ==
    IF r.ok /\ r.rest # <<>> /\ Head(r.rest) = "."
    THEN [ok |-> TRUE, rest |-> Tail(r.rest)]
    ELSE [ok |-> FALSE, rest |-> <<>>]

\* The pre-release or build identifiers that follow marker ("-" or "+"), if
\* text starts with it: dot-separated, none empty; numeric pre-release
\* identifiers carry no leading zero.
Identifiers(text, marker, numericStrict) ==
    IF text = <<>> \/ Head(text) # marker
    THEN [ok |-> TRUE, val |-> <<>>, rest |-> text]
    ELSE LET body == Tail(text)
             n    == PrefixLen(body, Range(IdentChars) \cup {"."})
             segs == Split(SubSeq(body, 1, n), ".")
             good == /\ n > 0
                     /\ \A i \in DOMAIN segs :
                            /\ segs[i] # <<>>
                            /\ numericStrict /\ AllDigits(segs[i])
                                   => ~HasLeadingZero(segs[i])
         IN  IF good
             THEN [ok |-> TRUE, val |-> segs, rest |-> DropFirst(body, n)]
             ELSE [ok |-> FALSE, val |-> <<>>, rest |-> <<>>]

NoVersion == Version(0, 0, 0, <<>>, <<>>)

ParseFailed == [ok |-> FALSE, val |-> NoVersion]

\* Mutant of Version::parse: a lenient parser that skips a leading "v" and
\* takes a missing patch as 0.
ParseVersion_Lenient(text) ==
    LET t     == IF text # <<>> /\ Head(text) = "v" THEN Tail(text) ELSE text
        major == NumericIdentifier(t)
        d1    == Dot(major)
        minor == NumericIdentifier(d1.rest)
    IN  IF major.ok /\ d1.ok /\ minor.ok
        THEN [ok |-> TRUE, val |-> Version(major.val, minor.val, 0, <<>>, <<>>)]
        ELSE ParseFailed

\* semver::Version::parse
ParseVersion(text) ==
    LET major == NumericIdentifier(text)
        d1    == Dot(major)
        minor == NumericIdentifier(d1.rest)
        d2    == Dot(minor)
        patch == NumericIdentifier(d2.rest)
        pre   == Identifiers(patch.rest, "-", TRUE)
        build == Identifiers(pre.rest, "+", FALSE)
    IN  IF /\ major.ok /\ d1.ok /\ minor.ok /\ d2.ok /\ patch.ok
           /\ pre.ok /\ build.ok /\ build.rest = <<>>
        THEN [ok |-> TRUE,
              val |-> Version(major.val, minor.val, patch.val, pre.val, build.val)]
        ELSE ParseFailed

\* Display for semver::Version
FormatVersion(v) ==
    FormatNat(v.major) \o <<".">> \o FormatNat(v.minor) \o <<".">> \o FormatNat(v.patch)
      \o (IF v.pre = <<>> THEN <<>> ELSE <<"-">> \o JoinWith(v.pre, "."))
      \o (IF v.build = <<>> THEN <<>> ELSE <<"+">> \o JoinWith(v.build, "."))

\* Orderings are -1 (Less), 0 (Equal), 1 (Greater).
CmpInt(a, b) == IF a < b THEN -1 ELSE IF a > b THEN 1 ELSE 0

Then(o, next) == IF o # 0 THEN o ELSE next

CharRank(c) == CHOOSE i \in DOMAIN IdentChars : IdentChars[i] = c

\* Ord for str: byte-wise lexicographic.
RECURSIVE CmpStr(_, _)
CmpStr(a, b) ==
    IF a = <<>> THEN (IF b = <<>> THEN 0 ELSE -1)
    ELSE IF b = <<>> THEN 1
    ELSE Then(CmpInt(CharRank(Head(a)), CharRank(Head(b))), CmpStr(Tail(a), Tail(b)))

\* One pre-release identifier against another.
CmpPreIdent(l, r) ==
    IF AllDigits(l) /\ AllDigits(r) THEN Then(CmpInt(Len(l), Len(r)), CmpStr(l, r))
    ELSE IF AllDigits(l) THEN -1
    ELSE IF AllDigits(r) THEN 1
    ELSE CmpStr(l, r)

RECURSIVE TrimStartZeros(_)
TrimStartZeros(s) ==
    IF s # <<>> /\ Head(s) = "0" THEN TrimStartZeros(Tail(s)) ELSE s

\* One build identifier against another.
CmpBuildIdent(l, r) ==
    IF AllDigits(l) /\ AllDigits(r)
    THEN LET lv == TrimStartZeros(l)
             rv == TrimStartZeros(r)
         IN  Then(CmpInt(Len(lv), Len(rv)),
                  Then(CmpStr(lv, rv), CmpInt(Len(l), Len(r))))
    ELSE IF AllDigits(l) THEN -1
    ELSE IF AllDigits(r) THEN 1
    ELSE CmpStr(l, r)

\* The identifier lists, left to right; the longer list is greater when
\* every shared identifier is equal.
RECURSIVE CmpIdents(_, _, _)
CmpIdents(l, r, build) ==
    IF l = <<>> THEN (IF r = <<>> THEN 0 ELSE -1)
    ELSE IF r = <<>> THEN 1
    ELSE LET o == IF build THEN CmpBuildIdent(Head(l), Head(r))
                  ELSE CmpPreIdent(Head(l), Head(r))
         IN  IF o # 0 THEN o ELSE CmpIdents(Tail(l), Tail(r), build)

\* Ord for semver::Prerelease: a release is greater than any pre-release.
CmpPrerelease(l, r) ==
    IF l = <<>> THEN (IF r = <<>> THEN 0 ELSE 1)
    ELSE IF r = <<>> THEN -1
    ELSE CmpIdents(l, r, FALSE)

\* Ord for semver::BuildMetadata: the empty metadata is the single empty
\* identifier, which is numeric and smaller than any other.
CmpBuildMetadata(l, r) ==
    CmpIdents(IF l = <<>> THEN << <<>> >> ELSE l,
              IF r = <<>> THEN << <<>> >> ELSE r, TRUE)

\* Ord for semver::Version, derived field by field.
CmpVersion(a, b) ==
    Then(CmpInt(a.major, b.major),
    Then(CmpInt(a.minor, b.minor),
    Then(CmpInt(a.patch, b.patch),
    Then(CmpPrerelease(a.pre, b.pre),
         CmpBuildMetadata(a.build, b.build)))))

\* cli_version >= app_version
UpToDate(cli, app) == CmpVersion(cli, app) >= 0

(***************************************************************************)
(* The inputs explored.                                                    *)
(***************************************************************************)
\* Pre-release tags: none, alphanumeric, and the numeric pair 9 < 10.
PreSamples == {<<>>, << <<"b">> >>, << <<"9">> >>, << <<"1", "0">> >>}

BuildSamples == {<<>>, << <<"1">> >>}

Versions ==
    {Version(major, minor, patch, pre, build) :
        major \in 0..MaxNum, minor \in 0..1, patch \in 0..1,
        pre \in PreSamples, build \in BuildSamples}

\* Output that is not a version: empty, a word, a "v" prefix, a leading zero,
\* a missing patch, an empty pre-release, inner whitespace, invalid UTF-8.
GarbageOutputs ==
    { <<>>,
      <<"g", "a", "r", "b", "a", "g", "e">>,
      <<"v", "1", ".", "0", ".", "0", "\n">>,
      <<"0", "1", ".", "0", ".", "0", "\n">>,
      <<"1", ".", "0", "\n">>,
      <<"1", ".", "0", ".", "0", "-", "\n">>,
      <<"1", ".", "0", ".", " ", "0", "\n">>,
      <<"1", ".", "0", ".", "0", BadByte, "\n">> }

\* What `<cli> --version` may print: a version and a newline, or garbage.
VersionOutputs ==
    {FormatVersion(v) \o <<"\n">> : v \in Versions} \cup GarbageOutputs

StderrSamples == {<<>>, <<"e", "r", "r">>, <<"e", BadByte>>}

\* What the installer script may print on stdout: nothing, or a path.
ScriptStdoutSamples == {<<>>, <<"/", "o", "p", "t", "/", "x">>}

\* The HOME values of the sync specification: unset, an absolute directory,
\* the empty string.
SyncHomes == {VarNotPresent, VarOk(<<"/", "u">>), VarOk(<<>>)}

\* The Display text of an std::io::Error.
IoErrorText == <<"(os error)">>

\* std::env::temp_dir()
TempDir == <<"/", "t", "m", "p">>

\* std::env::temp_dir().join("opencode-install.sh")
TempScript ==
    PathJoin(TempDir, <<"o", "p", "e", "n", "c", "o", "d", "e", "-", "i", "n",
                        "s", "t", "a", "l", "l", ".", "s", "h">>)

\* No process has run: the status is none a process exits with.
NoOutput == [status |-> -1, stdout |-> <<>>, stderr |-> <<>>]

(***************************************************************************)
(* sync_cli and install_cli, statement by statement.                       *)
(***************************************************************************)
Log(event) == trace' = Append(trace, event)

\* install_cli returns r: to sync_cli's `?` when sync_cli called it, else to
\* the caller of the command.
InstallReturn(r) ==
    /\ instResult' = r
    /\ pc' = IF entry = "sync" THEN "s_after_install" ELSE "done"

\* sync_cli returns r having decided d.
SyncReturn(r, d) ==
    /\ syncResult' = r
    /\ decision' = d
    /\ pc' = "done"

\* The application calls sync_cli.
CallSync ==
    /\ pc = "idle"
    /\ pc' = "s_debug"
    /\ entry' = "sync"
    /\ trace' = <<>>
    /\ UNCHANGED <<home, fs, debug, unix, appVersion, cliPath, output, cliVersion,
                   decision, syncResult, sidecar, scriptOut, removeOk, instResult>>
    /\ UNCHANGED <<pathVars, configVars, cmdVars, peerVars>>

\* if cfg!(debug_assertions) { return Ok(()) }
SyncDebugCheck ==
    /\ pc = "s_debug"
    /\ IF debug
       THEN SyncReturn(Ok(<<>>), "Skip(debug-build)")
       ELSE pc' = "s_installed" /\ UNCHANGED <<syncResult, decision>>
    /\ UNCHANGED <<home, fs, debug, unix, appVersion, entry, cliPath, output,
                   cliVersion, sidecar, scriptOut, removeOk, instResult, trace>>
    /\ UNCHANGED <<pathVars, configVars, cmdVars, peerVars>>

\* if !is_cli_installed() { return Ok(()) }
SyncInstalledCheck ==
    /\ pc = "s_installed"
    /\ IF IsCliInstalled(home, fs)
       THEN /\ pc' = "s_resolve"
            /\ Log("installed")
            /\ UNCHANGED <<syncResult, decision>>
       ELSE /\ SyncReturn(Ok(<<>>), "Skip(not-installed)")
            /\ Log("not-installed")
    /\ UNCHANGED <<home, fs, debug, unix, appVersion, entry, cliPath, output,
                   cliVersion, sidecar, scriptOut, removeOk, instResult>>
    /\ UNCHANGED <<pathVars, configVars, cmdVars, peerVars>>

\* let cli_path = get_cli_install_path().ok_or_else(..)?
SyncResolvePath ==
    /\ pc = "s_resolve"
    /\ LET p == GetCliInstallPath(home)
       IN  IF p.some
           THEN /\ cliPath' = p.val
                /\ pc' = "s_version"
                /\ UNCHANGED <<syncResult, decision>>
           ELSE /\ SyncReturn(Err("Could not determine CLI install path", <<>>), decision)
                /\ UNCHANGED cliPath
    /\ UNCHANGED <<home, fs, debug, unix, appVersion, entry, output, cliVersion,
                   sidecar, scriptOut, removeOk, instResult, trace>>
    /\ UNCHANGED <<pathVars, configVars, cmdVars, peerVars>>

\* Command::new(&cli_path).arg("--version").output().map_err(..)?
\* The spawn fails when the path is gone, and may fail for other reasons;
\* otherwise the binary runs to an exit status and prints something.
SyncRunVersion ==
    /\ pc = "s_version"
    /\ \/ /\ SyncReturn(Err("Failed to get CLI version: ", IoErrorText), decision)
          /\ Log("version-spawn-failed")
          /\ UNCHANGED output
       \/ /\ PathExists(cliPath, fs)
          /\ \E status \in {0, 1}, stdout \in VersionOutputs :
                output' = [status |-> status, stdout |-> stdout, stderr |-> <<>>]
          /\ Log("version-ran")
          /\ pc' = "s_status"
          /\ UNCHANGED <<syncResult, decision>>
    /\ UNCHANGED <<home, fs, debug, unix, appVersion, entry, cliPath, cliVersion,
                   sidecar, scriptOut, removeOk, instResult>>
    /\ UNCHANGED <<pathVars, configVars, cmdVars, peerVars>>

\* Mutant of the status check: a failed --version call is run again.
SyncCheckStatus_Retry ==
    /\ pc = "s_status"
    /\ pc' = IF output.status = 0 THEN "s_parse" ELSE "s_version"
    /\ UNCHANGED <<home, fs, debug, unix, appVersion, entry, cliPath, output,
                   cliVersion, decision, syncResult, sidecar, scriptOut, removeOk,
                   instResult, trace>>
    /\ UNCHANGED <<pathVars, configVars, cmdVars, peerVars>>

\* if !output.status.success() { return Err(..) }
SyncCheckStatus ==
    /\ pc = "s_status"
    /\ IF output.status = 0
       THEN pc' = "s_parse" /\ UNCHANGED <<syncResult, decision>>
       ELSE SyncReturn(Err("Failed to get CLI version", <<>>), decision)
    /\ UNCHANGED <<home, fs, debug, unix, appVersion, entry, cliPath, output,
                   cliVersion, sidecar, scriptOut, removeOk, instResult, trace>>
    /\ UNCHANGED <<pathVars, configVars, cmdVars, peerVars>>

\* String::from_utf8_lossy(&output.stdout).trim().to_string()
CliVersionStr(out) == Trim(FromUtf8Lossy(out.stdout))

\* let cli_version = semver::Version::parse(&cli_version_str).map_err(..)?
SyncParseVersion ==
    /\ pc = "s_parse"
    /\ LET str == CliVersionStr(output)
           v   == ParseVersion(str)
       IN  IF v.ok
           THEN /\ cliVersion' = v.val
                /\ pc' = "s_compare"
                /\ Log("parsed")
                /\ UNCHANGED <<syncResult, decision>>
           ELSE /\ SyncReturn(Err("Failed to parse CLI version ", str), decision)
                /\ Log("parse-failed")
                /\ UNCHANGED cliVersion
    /\ UNCHANGED <<home, fs, debug, unix, appVersion, entry, cliPath, output,
                   sidecar, scriptOut, removeOk, instResult>>
    /\ UNCHANGED <<pathVars, configVars, cmdVars, peerVars>>

\* The decision of `if cli_version >= app_version`.
Decide(cli, app) == IF UpToDate(cli, app) THEN "Skip(up-to-date)" ELSE "Install"

\* if cli_version >= app_version { .. }
SyncCompare ==
    /\ pc = "s_compare"
    /\ decision' = Decide(cliVersion, appVersion)
    /\ pc' = "s_decided"
    /\ output' = NoOutput
    /\ UNCHANGED <<home, fs, debug, unix, appVersion, entry, cliPath, cliVersion,
                   syncResult, sidecar, scriptOut, removeOk, instResult, trace>>
    /\ UNCHANGED <<pathVars, configVars, cmdVars, peerVars>>

\* return Ok(()) when up to date; otherwise install_cli(app) is called.
SyncActOnDecision ==
    /\ pc = "s_decided"
    /\ IF decision = "Install"
       THEN /\ pc' = "i_platform"
            /\ Log("install_cli")
            /\ UNCHANGED syncResult
       ELSE /\ syncResult' = Ok(<<>>)
            /\ pc' = "done"
            /\ UNCHANGED trace
    /\ cliVersion' = NoVersion
    /\ UNCHANGED <<home, fs, debug, unix, appVersion, entry, cliPath, output,
                   decision, sidecar, scriptOut, removeOk, instResult>>
    /\ UNCHANGED <<pathVars, configVars, cmdVars, peerVars>>

\* Mutant of the propagation: let _ = install_cli(app); Ok(())
Propagate_Swallow(r) == Ok(<<>>)

\* What sync_cli makes of install_cli's result: install_cli(app)?; Ok(())
Propagate(r) == IF r.ok THEN Ok(<<>>) ELSE r

\* install_cli(app)?; println!(..); Ok(())
SyncAfterInstall ==
    /\ pc = "s_after_install"
    /\ syncResult' = Propagate(instResult)
    /\ pc' = "done"
    /\ UNCHANGED <<home, fs, debug, unix, appVersion, entry, cliPath, output,
                   cliVersion, decision, sidecar, scriptOut, removeOk, instResult,
                   trace>>
    /\ UNCHANGED <<pathVars, configVars, cmdVars, peerVars>>

\* A caller invokes the install_cli command directly.
CallInstall ==
    /\ pc = "idle"
    /\ pc' = "i_platform"
    /\ entry' = "install"
    /\ trace' = <<"install_cli">>
    /\ UNCHANGED <<home, fs, debug, unix, appVersion, cliPath, output, cliVersion,
                   decision, syncResult, sidecar, scriptOut, removeOk, instResult>>
    /\ UNCHANGED <<pathVars, configVars, cmdVars, peerVars>>

\* Mutant of the platform check: the early return is missing.
InstallPlatformCheck_NoReturn ==
    /\ pc = "i_platform"
    /\ pc' = "i_sidecar"
    /\ UNCHANGED <<home, fs, debug, unix, appVersion, entry, cliPath, output,
                   cliVersion, decision, syncResult, sidecar, scriptOut, removeOk,
                   instResult, trace>>
    /\ UNCHANGED <<pathVars, configVars, cmdVars, peerVars>>

\* if cfg!(not(unix)) { return Err(..) }
InstallPlatformCheck ==
    /\ pc = "i_platform"
    /\ IF unix
       THEN pc' = "i_sidecar" /\ UNCHANGED instResult
       ELSE InstallReturn(Err("CLI installation is only supported on macOS & Linux", <<>>))
    /\ UNCHANGED <<home, fs, debug, unix, appVersion, entry, cliPath, output,
                   cliVersion, decision, syncResult, sidecar, scriptOut, removeOk,
                   trace>>
    /\ UNCHANGED <<pathVars, configVars, cmdVars, peerVars>>

\* The outcomes of get_sidecar_path(&app) followed by sidecar.exists():
\* current_binary(..).expect(..) panics, or the path is resolved and the
\* file is missing or present.
SidecarOutcomes == {"panic", "missing", "present"}

\* let sidecar = get_sidecar_path(&app); if !sidecar.exists() { return Err(..) }
InstallSidecarCheck ==
    /\ pc = "i_sidecar"
    /\ \E found \in SidecarOutcomes :
          /\ sidecar' = found
          /\ CASE found = "panic" -> pc' = "panicked" /\ UNCHANGED instResult
               [] found = "missing" -> InstallReturn(Err("Sidecar binary not found", <<>>))
               [] found = "present" -> pc' = "i_write" /\ UNCHANGED instResult
    /\ UNCHANGED <<home, fs, debug, unix, appVersion, entry, cliPath, output,
                   cliVersion, decision, syncResult, scriptOut, removeOk, trace>>
    /\ UNCHANGED <<pathVars, configVars, cmdVars, peerVars>>

\* std::fs::write(&temp_script, INSTALL_SCRIPT).map_err(..)?
InstallWriteScript ==
    /\ pc = "i_write"
    /\ \/ /\ fs' = fs \cup {TempScript}
          /\ Log("write")
          /\ pc' = "i_chmod"
          /\ UNCHANGED instResult
       \/ /\ InstallReturn(Err("Failed to write install script: ", IoErrorText))
          /\ Log("write-failed")
          /\ UNCHANGED fs
    /\ UNCHANGED <<home, debug, unix, appVersion, entry, cliPath, output, cliVersion,
                   decision, syncResult, sidecar, scriptOut, removeOk>>
    /\ UNCHANGED <<pathVars, configVars, cmdVars, peerVars>>

\* std::fs::set_permissions(&temp_script, from_mode(0o755)).map_err(..)?
InstallSetPermissions ==
    /\ pc = "i_chmod"
    /\ \/ /\ PathExists(TempScript, fs)
          /\ Log("chmod")
          /\ pc' = "i_run"
          /\ UNCHANGED instResult
       \/ /\ InstallReturn(Err("Failed to set script permissions: ", IoErrorText))
          /\ Log("chmod-failed")
    /\ UNCHANGED <<home, fs, debug, unix, appVersion, entry, cliPath, output,
                   cliVersion, decision, syncResult, sidecar, scriptOut, removeOk>>
    /\ UNCHANGED <<pathVars, configVars, cmdVars, peerVars>>

\* What the installer script may do to the disk: nothing, or install the
\* binary at the install path of its HOME.
ScriptEffects(disk) ==
    {disk} \cup {disk \cup {GetCliInstallPath(h).val} : h \in {home} \cap {x \in SyncHomes : x.tag = "Ok"}}

\* Command::new(&temp_script).arg("--binary").arg(&sidecar).output().map_err(..)?
InstallRunScript ==
    /\ pc = "i_run"
    /\ \/ /\ InstallReturn(Err("Failed to run install script: ", IoErrorText))
          /\ Log("run-spawn-failed")
          /\ UNCHANGED <<fs, scriptOut>>
       \/ /\ PathExists(TempScript, fs)
          /\ \E status \in {0, 1}, stdout \in ScriptStdoutSamples, stderr \in StderrSamples :
                scriptOut' = [status |-> status, stdout |-> stdout, stderr |-> stderr]
          /\ fs' \in ScriptEffects(fs)
          /\ Log("run")
          /\ pc' = "i_remove"
          /\ UNCHANGED instResult
    /\ UNCHANGED <<home, debug, unix, appVersion, entry, cliPath, output, cliVersion,
                   decision, syncResult, sidecar, removeOk>>
    /\ UNCHANGED <<pathVars, configVars, cmdVars, peerVars>>

\* Mutant of the cleanup: std::fs::remove_file(&temp_script).map_err(..)?
InstallRemoveScript_Propagating ==
    /\ pc = "i_remove"
    /\ \/ /\ PathExists(TempScript, fs)
          /\ fs' = fs \ {TempScript}
          /\ removeOk' = TRUE
          /\ pc' = "i_status"
          /\ UNCHANGED instResult
       \/ /\ removeOk' = FALSE
          /\ InstallReturn(Err("Failed to remove install script: ", IoErrorText))
          /\ UNCHANGED fs
    /\ Log("remove")
    /\ UNCHANGED <<home, debug, unix, appVersion, entry, cliPath, output, cliVersion,
                   decision, syncResult, sidecar, scriptOut>>
    /\ UNCHANGED <<pathVars, configVars, cmdVars, peerVars>>

\* let _ = std::fs::remove_file(&temp_script);
InstallRemoveScript ==
    /\ pc = "i_remove"
    /\ \/ /\ PathExists(TempScript, fs)
          /\ fs' = fs \ {TempScript}
          /\ removeOk' = TRUE
       \/ /\ removeOk' = FALSE
          /\ UNCHANGED fs
    /\ Log("remove")
    /\ pc' = "i_status"
    /\ UNCHANGED <<home, debug, unix, appVersion, entry, cliPath, output, cliVersion,
                   decision, syncResult, sidecar, scriptOut, instResult>>
    /\ UNCHANGED <<pathVars, configVars, cmdVars, peerVars>>

\* The Err of a script that exited nonzero.
ScriptFailed(out) == Err("Install script failed: ", FromUtf8Lossy(out.stderr))

\* if !output.status.success() { return Err(format!(.., stderr)) }
InstallCheckStatus ==
    /\ pc = "i_status"
    /\ IF scriptOut.status = 0
       THEN pc' = "i_path" /\ UNCHANGED instResult
       ELSE InstallReturn(ScriptFailed(scriptOut))
    /\ Log("status")
    /\ UNCHANGED <<home, fs, debug, unix, appVersion, entry, cliPath, output,
                   cliVersion, decision, syncResult, sidecar, scriptOut, removeOk>>
    /\ UNCHANGED <<pathVars, configVars, cmdVars, peerVars>>

\* Mutant of the returned path: the path the script printed is returned.
InstalledPath_FromScript(h, out) ==
    IF out.stdout # <<>> THEN Ok(FromUtf8Lossy(out.stdout))
    ELSE LET p == GetCliInstallPath(h)
         IN  IF p.some THEN Ok(p.val) ELSE Err("Could not determine install path", <<>>)

\* The value install_cli returns after a successful script.
InstalledPath(h, out) ==
    LET p == GetCliInstallPath(h)
    IN  IF p.some THEN Ok(p.val) ELSE Err("Could not determine install path", <<>>)

\* let install_path = get_cli_install_path().ok_or_else(..)?;
\* Ok(install_path.to_string_lossy().to_string())
InstallResolvePath ==
    /\ pc = "i_path"
    /\ InstallReturn(InstalledPath(home, scriptOut))
    /\ UNCHANGED <<home, fs, debug, unix, appVersion, entry, cliPath, output,
                   cliVersion, decision, syncResult, sidecar, scriptOut, removeOk,
                   trace>>
    /\ UNCHANGED <<pathVars, configVars, cmdVars, peerVars>>

\* The entry point has returned; the application may call again.
Reset ==
    /\ pc = "done"
    /\ pc' = "idle"
    /\ entry' = "none"
    /\ cliPath' = <<>>
    /\ output' = NoOutput
    /\ cliVersion' = NoVersion
    /\ decision' = "none"
    /\ syncResult' = NoResult
    /\ sidecar' = "unknown"
    /\ scriptOut' = NoOutput
    /\ removeOk' = FALSE
    /\ instResult' = NoResult
    /\ trace' = <<>>
    /\ UNCHANGED <<home, fs, debug, unix, appVersion>>
    /\ UNCHANGED <<pathVars, configVars, cmdVars, peerVars>>

\* The paths another process may create or delete: the temporary script and
\* the install path.
ExternalPaths(h) ==
    {TempScript} \cup (IF h.tag = "Ok" THEN {GetCliInstallPath(h).val} ELSE {})

\* The positions at which install_cli reads or writes the temporary script.
ScriptSteps == {"i_write", "i_chmod", "i_run", "i_remove"}

\* Another process creates or deletes one of those paths while an entry
\* point runs. A change to the temporary script is taken only where
\* install_cli can observe it: an earlier change is observed there the same.
ExternalFsChange ==
    /\ pc \notin {"idle", "done", "panicked"}
    /\ \E p \in ExternalPaths(home) :
          /\ p = TempScript => pc \in ScriptSteps
          /\ fs' = IF p \in fs THEN fs \ {p} ELSE fs \cup {p}
    /\ UNCHANGED home
    /\ UNCHANGED <<syncVars, pathVars, configVars, cmdVars, peerVars>>

PathIdle ==
    /\ pathRes = None
    /\ installedRes = FALSE
    /\ prevInstalled = FALSE
    /\ pcPath = "idle"

ConfigIdle ==
    /\ sidecarRun = [outcome |-> "none", status |-> -1,
                     stdout |-> [json |-> FALSE, value |-> [t |-> "str", s |-> <<>>]]]
    /\ configRes = None
    /\ pcConfig = "idle"

\* create_command has not been called: no program, no arguments, nothing run.
NoExec == [ran |-> FALSE, target |-> <<>>, args |-> <<>>]

NoInvoke ==
    [pc |-> "idle", target |-> <<>>, program |-> <<>>, argv |-> <<>>,
     appended |-> <<>>, userShell |-> <<>>, exec |-> NoExec]

CommandIdle ==
    /\ shell = VarNotPresent
    /\ invoke = NoInvoke

\* No concurrent installer is running.
NoPeers == [proc |-> <<>>, executable |-> FALSE]

PeersIdle == peers = NoPeers

SyncIdle ==
    /\ pc = "idle"
    /\ entry = "none"
    /\ cliPath = <<>>
    /\ output = NoOutput
    /\ cliVersion = NoVersion
    /\ decision = "none"
    /\ syncResult = NoResult
    /\ sidecar = "unknown"
    /\ scriptOut = NoOutput
    /\ removeOk = FALSE
    /\ instResult = NoResult
    /\ trace = <<>>

Init ==
    /\ home \in SyncHomes
    /\ fs \in SUBSET (ExternalPaths(home) \ {TempScript})
    /\ debug \in BOOLEAN
    /\ unix \in BOOLEAN
    /\ appVersion \in Versions
    /\ SyncIdle
    /\ PathIdle
    /\ ConfigIdle
    /\ CommandIdle
    /\ PeersIdle

Next ==
    \/ CallSync
    \/ SyncDebugCheck
    \/ SyncInstalledCheck
    \/ SyncResolvePath
    \/ SyncRunVersion
    \/ SyncCheckStatus
    \/ SyncParseVersion
    \/ SyncCompare
    \/ SyncActOnDecision
    \/ SyncAfterInstall
    \/ CallInstall
    \/ InstallPlatformCheck
    \/ InstallSidecarCheck
    \/ InstallWriteScript
    \/ InstallSetPermissions
    \/ InstallRunScript
    \/ InstallRemoveScript
    \/ InstallCheckStatus
    \/ InstallResolvePath
    \/ Reset
    \/ ExternalFsChange

Spec == Init /\ [][Next]_vars

(***************************************************************************)
(* Properties of sync_cli and install_cli.                                 *)
(***************************************************************************)
Logged(event) == event \in Range(trace)

\* The position of the first occurrence of event in the trace, 0 if none.
FirstAt(event) ==
    IF Logged(event) THEN CHOOSE i \in DOMAIN trace :
                              trace[i] = event /\ \A j \in 1..(i - 1) : trace[j] # event
    ELSE 0

\* install_cli has returned a Result to its caller.
InstallReturned == pc \in {"done", "s_after_install"} /\ Logged("install_cli")

\* sync_cli has returned a Result to its caller.
SyncReturned == pc = "done" /\ entry = "sync"

\* Precedence of the Semantic Versioning specification, section 11, stated
\* on its own terms: numeric identifiers by value, numeric below
\* alphanumeric, alphanumeric in ASCII order, a shorter list below a longer
\* one it is a prefix of, a pre-release below its release, build metadata
\* ignored.
IdentPrecedes(l, r) ==
    IF AllDigits(l) /\ AllDigits(r) THEN DecimalValue(l) < DecimalValue(r)
    ELSE IF AllDigits(l) \/ AllDigits(r) THEN AllDigits(l)
    ELSE CmpStr(l, r) < 0

PrePrecedes(l, r) ==
    \/ /\ Len(l) < Len(r)
       /\ \A i \in DOMAIN l : l[i] = r[i]
    \/ \E i \in DOMAIN l \cap DOMAIN r :
          /\ \A j \in 1..(i - 1) : l[j] = r[j]
          /\ IdentPrecedes(l[i], r[i])

CorePrecedes(a, b) ==
    \/ a.major < b.major
    \/ a.major = b.major /\ a.minor < b.minor
    \/ a.major = b.major /\ a.minor = b.minor /\ a.patch < b.patch

SameCore(a, b) == a.major = b.major /\ a.minor = b.minor /\ a.patch = b.patch

PrecedenceLess(a, b) ==
    \/ CorePrecedes(a, b)
    \/ /\ SameCore(a, b)
       /\ \/ a.pre # <<>> /\ b.pre = <<>>
          \/ a.pre # <<>> /\ b.pre # <<>> /\ PrePrecedes(a.pre, b.pre)

\* C1: in a release build, with an installed copy whose --version exits 0 and
\* prints a semantic version, sync_cli decides to install if and only if the
\* installed version precedes the app version in semantic-versioning
\* precedence.
C1_InstallIffOlder ==
    pc = "s_decided" => (decision = "Install" <=> PrecedenceLess(cliVersion, appVersion))

\* What does hold of the comparison: neither version carrying build metadata,
\* the decision is the one of semantic-versioning precedence.
C1_InstallIffOlderNoBuild ==
    (pc = "s_decided" /\ cliVersion.build = <<>> /\ appVersion.build = <<>>)
        => (decision = "Install" <=> PrecedenceLess(cliVersion, appVersion))

\* The install path of the current HOME exists on disk.
InstalledOnDisk == \E p \in fs : GetCliInstallPath(home) = Some(p)

\* C2: sync_cli never invokes install_cli in a debug build, and when the
\* installed check finds no installation it returns Ok(()) at once, without
\* invoking install_cli.
C2_NoInstallWhenAbsentOrDebug ==
    /\ [](entry = "sync" /\ debug => ~Logged("install_cli") /\ (pc = "done" => syncResult = Ok(<<>>)))
    /\ [][(/\ entry = "sync"
           /\ pc' # pc
           /\ \/ pc = "s_debug" /\ debug
              \/ pc = "s_installed" /\ ~InstalledOnDisk)
          => (/\ pc' = "done"
              /\ syncResult' = Ok(<<>>)
              /\ "install_cli" \notin Range(trace'))]_vars

C2_Witness ==
    /\ SyncReturned
    /\ ~debug
    /\ decision = "Skip(not-installed)"
    /\ syncResult = Ok(<<>>)
    /\ ~InstalledOnDisk

\* What install_cli returns once the script has run, by its exit status and
\* HOME alone.
ResultAfterRun ==
    IF scriptOut.status # 0
    THEN Err("Install script failed: ", FromUtf8Lossy(scriptOut.stderr))
    ELSE IF home.tag = "Ok" THEN Ok(GetCliInstallPath(home).val)
    ELSE Err("Could not determine install path", <<>>)

\* C3: once the installer script has run to completion, the deletion of the
\* temporary script is attempted next, before the exit status is inspected,
\* for either exit status; whether the deletion succeeded does not change
\* what install_cli returns.
C3_RemoveBeforeStatus ==
    /\ pc = "i_status" => trace[Len(trace)] = "remove" /\ trace[Len(trace) - 1] = "run"
    /\ Logged("status") => FirstAt("run") + 1 = FirstAt("remove")
                           /\ FirstAt("remove") + 1 = FirstAt("status")
    /\ (InstallReturned /\ Logged("run")) => Logged("remove") /\ instResult = ResultAfterRun

C3_Witness ==
    /\ InstallReturned
    /\ Logged("run")
    /\ ~removeOk
    /\ scriptOut.status = 0
    /\ instResult.ok
    /\ TempScript \in fs

\* The text is the Display form of a semantic version.
IsSemverText(t) == \E v \in Versions : FormatVersion(v) = t

\* The --version call of the running sync_cli failed to spawn, exited
\* nonzero, or printed text that is no semantic version.
BadVersionCall ==
    \/ Logged("version-spawn-failed")
    \/ /\ Logged("version-ran")
       /\ output # NoOutput
       /\ output.status # 0 \/ ~IsSemverText(CliVersionStr(output))

\* C4: when the --version call fails to spawn, exits nonzero or prints text
\* that is no semantic version, sync_cli returns Err and never invokes
\* install_cli.
C4_BadVersionFails ==
    (entry = "sync" /\ BadVersionCall)
        => /\ ~Logged("install_cli")
           /\ pc \in {"s_status", "s_parse", "done"}
           /\ pc = "done" => ~syncResult.ok /\ syncResult # NoResult

C4_Witness ==
    /\ SyncReturned
    /\ output.status = 0
    /\ output.stdout = <<"g", "a", "r", "b", "a", "g", "e">>
    /\ syncResult = Err("Failed to parse CLI version ", <<"g", "a", "r", "b", "a", "g", "e">>)

\* C5: in the Install branch sync_cli returns install_cli's Err unchanged and
\* Ok(()) for install_cli's Ok; sync_cli returns Ok(()) only after a Skip
\* decision or a successful install.
C5_SyncPropagatesInstall ==
    SyncReturned
        => /\ decision = "Install"
                => /\ instResult # NoResult
                   /\ instResult.ok => syncResult = Ok(<<>>)
                   /\ ~instResult.ok => syncResult = instResult
           /\ syncResult.ok
                => \/ decision \in {"Skip(debug-build)", "Skip(not-installed)", "Skip(up-to-date)"}
                   \/ decision = "Install" /\ instResult.ok

C5_Witness ==
    /\ SyncReturned
    /\ decision = "Install"
    /\ Logged("run")
    /\ scriptOut.status # 0
    /\ ~syncResult.ok
    /\ syncResult = instResult

\* <home>/.opencode/bin/opencode, by concatenation.
TemplatePath(h) == h \o <<"/">> \o CLI_INSTALL_DIR \o <<"/">> \o CLI_BINARY_NAME

C7_PreconditionsFailFirst ==
    (Logged("install_cli") /\ (~unix \/ sidecar = "missing"))
        => /\ pc \in {"i_platform", "i_sidecar", "done", "s_after_install"}
           /\ trace[Len(trace)] = "install_cli"
           /\ InstallReturned => ~instResult.ok /\ instResult # NoResult

C7_Witness ==
    /\ InstallReturned
    /\ unix
    /\ sidecar = "missing"
    /\ instResult = Err("Sidecar binary not found", <<>>)

(***************************************************************************)
(* The install path resolver on its own: any HOME, any disk.               *)
(***************************************************************************)
\* The HOME values explored: unset, not Unicode, and every string of "/"
\* and "u" up to MaxHomeLen: empty, relative, absolute, trailing separator.
PathHomes ==
    {VarNotPresent, VarNotUnicode} \cup {VarOk(h) : h \in StringsUpTo({"/", "u"}, MaxHomeLen)}

\* The paths of the resolver specification's disk: every install path.
PathDisk ==
    {CollapseSeparators(GetCliInstallPath(h).val) : h \in {x \in PathHomes : x.tag = "Ok"}}

\* A caller asks for the install path.
CallGetCliInstallPath ==
    /\ pcPath = "idle"
    /\ pathRes' = GetCliInstallPath(home)
    /\ pcPath' = "returned_path"
    /\ UNCHANGED <<home, fs, installedRes, prevInstalled>>
    /\ UNCHANGED <<syncVars, configVars, cmdVars, peerVars>>

\* A caller asks whether the CLI is installed.
CallIsCliInstalled ==
    /\ pcPath = "idle"
    /\ installedRes' = IsCliInstalled(home, fs)
    /\ prevInstalled' = installedRes
    /\ pcPath' = "returned_installed"
    /\ UNCHANGED <<home, fs, pathRes>>
    /\ UNCHANGED <<syncVars, configVars, cmdVars, peerVars>>

\* The caller has its answer.
PathReturn ==
    /\ pcPath \in {"returned_path", "returned_installed"}
    /\ pcPath' = "idle"
    /\ UNCHANGED <<home, fs, pathRes, installedRes, prevInstalled>>
    /\ UNCHANGED <<syncVars, configVars, cmdVars, peerVars>>

\* Between calls HOME is set to another value, or removed.
SetHome ==
    /\ pcPath = "idle"
    /\ home' \in PathHomes \ {home}
    /\ UNCHANGED <<fs, pathVars, syncVars, configVars, cmdVars, peerVars>>

\* Between calls a path is created on disk.
FsCreate ==
    /\ pcPath = "idle"
    /\ Cardinality(fs) < MaxFiles
    /\ \E p \in PathDisk \ fs : fs' = fs \cup {p}
    /\ UNCHANGED <<home, pathVars, syncVars, configVars, cmdVars, peerVars>>

\* Between calls a path is deleted from disk.
FsRemove ==
    /\ pcPath = "idle"
    /\ \E p \in fs : fs' = fs \ {p}
    /\ UNCHANGED <<home, pathVars, syncVars, configVars, cmdVars, peerVars>>

\* The build, version and call state the resolver never reads.
SyncUnused ==
    /\ debug = FALSE
    /\ unix = TRUE
    /\ appVersion = NoVersion
    /\ SyncIdle

InitPath ==
    /\ home \in PathHomes
    /\ fs = {}
    /\ SyncUnused
    /\ PathIdle
    /\ ConfigIdle
    /\ CommandIdle
    /\ PeersIdle

NextPath ==
    \/ CallGetCliInstallPath
    \/ CallIsCliInstalled
    \/ PathReturn
    \/ SetHome
    \/ FsCreate
    \/ FsRemove

SpecPath == InitPath /\ [][NextPath]_vars

\* ".opencode/bin/opencode"
InstallSuffix == CLI_INSTALL_DIR \o <<"/">> \o CLI_BINARY_NAME

C9_InstalledIffExistsNow ==
    pcPath = "returned_installed"
        => (installedRes <=> /\ home.tag = "Ok"
                             /\ \E p \in fs :
                                   p = CollapseSeparators(GetCliInstallPath(home).val))

C9_Witness ==
    /\ pcPath = "returned_installed"
    /\ prevInstalled
    /\ ~installedRes
    /\ home.tag = "Ok"
    /\ fs # {}

(***************************************************************************)
(* get_config: the sidecar's `debug config` output read as a Config.       *)
(* Standard output is either text that is no JSON document or a JSON       *)
(* document given as its value; Deserialize for Config and ServerConfig    *)
(* is computed on that value.                                              *)
(***************************************************************************)
JNull == [t |-> "null"]

JStr(str) == [t |-> "str", s |-> str]

\* A JSON number: its sign, the digits of its integer part, and whether it
\* has a fraction or exponent.
JNum(neg, digits, frac) == [t |-> "num", neg |-> neg, digits |-> digits, frac |-> frac]

\* A JSON object: a function from its keys to their values.
JObj(fields) == [t |-> "obj", fields |-> fields]

\* u32::MAX, in digits.
U32MaxDigits == <<"4", "2", "9", "4", "9", "6", "7", "2", "9", "5">>

FitsU32(digits) ==
    \/ Len(digits) < Len(U32MaxDigits)
    \/ Len(digits) = Len(U32MaxDigits) /\ CmpStr(digits, U32MaxDigits) <= 0

DeFailed == [ok |-> FALSE, val |-> None]

\* Deserialize for Option<String>: null is None, a string is Some.
DeOptionString(v) ==
    IF v.t = "null" THEN [ok |-> TRUE, val |-> None]
    ELSE IF v.t = "str" THEN [ok |-> TRUE, val |-> Some(v.s)]
    ELSE DeFailed

\* Deserialize for Option<u32>: null is None, a non-negative integer that
\* fits 32 bits is Some.
DeOptionU32(v) ==
    IF v.t = "null" THEN [ok |-> TRUE, val |-> None]
    ELSE IF v.t = "num" /\ ~v.neg /\ ~v.frac /\ FitsU32(v.digits)
    THEN [ok |-> TRUE, val |-> Some(v.digits)]
    ELSE DeFailed

\* A field of a derived struct: a missing Option field is None; unknown
\* fields are skipped.
FieldOrNull(obj, name) == IF name \in DOMAIN obj.fields THEN obj.fields[name] ELSE JNull

\* Mutant of the field lookup: the fields are required (no Option).
FieldRequired(obj, name) ==
    IF name \in DOMAIN obj.fields THEN obj.fields[name] ELSE [t |-> "missing"]

\* A field of Config or ServerConfig, as #[derive(Deserialize)] reads it.
Field(obj, name) == FieldOrNull(obj, name)

\* #[derive(Deserialize)] pub struct ServerConfig { hostname, port }
DeServerConfig(v) ==
    IF v.t # "obj" THEN DeFailed
    ELSE LET hostname == DeOptionString(Field(v, "hostname"))
             port     == DeOptionU32(Field(v, "port"))
         IN  IF hostname.ok /\ port.ok
             THEN [ok |-> TRUE, val |-> [hostname |-> hostname.val, port |-> port.val]]
             ELSE DeFailed

\* Deserialize for Option<ServerConfig>
DeOptionServerConfig(v) ==
    IF v.t = "null" THEN [ok |-> TRUE, val |-> None]
    ELSE LET server == DeServerConfig(v)
         IN  IF server.ok THEN [ok |-> TRUE, val |-> Some(server.val)] ELSE DeFailed

\* #[derive(Deserialize)] pub struct Config { server }
DeConfig(v) ==
    IF v.t # "obj" THEN DeFailed
    ELSE LET server == DeOptionServerConfig(Field(v, "server"))
         IN  IF server.ok THEN [ok |-> TRUE, val |-> [server |-> server.val]] ELSE DeFailed

\* serde_json::from_str(&stdout).ok()
ParseConfig(stdout) ==
    IF ~stdout.json THEN None
    ELSE LET c == DeConfig(stdout.value)
         IN  IF c.ok THEN Some(c.val) ELSE None

HostnameValues == {JNull, JStr(<<"h">>), JNum(FALSE, <<"1">>, FALSE)}

PortValues ==
    { JNull,
      JNum(FALSE, <<"0">>, FALSE),
      JNum(FALSE, <<"8", "0">>, FALSE),
      JNum(FALSE, U32MaxDigits, FALSE),
      JNum(FALSE, <<"4", "2", "9", "4", "9", "6", "7", "2", "9", "6">>, FALSE),
      JNum(TRUE, <<"1">>, FALSE),
      JNum(FALSE, <<"1">>, TRUE),
      JStr(<<"8", "0">>) }

\* The objects with some of the keys, each key's value taken from values[key].
ObjectsOver(keys, values) ==
    UNION {[ks -> UNION {values[k] : k \in ks}] : ks \in SUBSET keys}

\* The objects a server field may hold: hostname and port present or not,
\* well typed or not, with or without a key the schema does not know.
ServerObjects ==
    {JObj(f) : f \in {g \in ObjectsOver({"hostname", "port", "extra"},
                                        [hostname |-> HostnameValues,
                                         port |-> PortValues,
                                         extra |-> {JNull}]) :
                         /\ "hostname" \in DOMAIN g => g["hostname"] \in HostnameValues
                         /\ "port" \in DOMAIN g => g["port"] \in PortValues
                         /\ "extra" \in DOMAIN g => g["extra"] = JNull}}

ServerValues == ServerObjects \cup {JNull, JStr(<<"s">>)}

\* The JSON documents the sidecar may print.
JsonDocuments ==
    {JObj(<<>>), JNull, JStr(<<"x">>), JNum(FALSE, <<"1">>, FALSE)}
      \cup {JObj([k \in {"server"} |-> v]) : v \in ServerValues}

\* What the sidecar may print: a JSON document, or text that is none.
ConfigStdouts ==
    {[json |-> TRUE, value |-> d] : d \in JsonDocuments}
      \cup {[json |-> FALSE, value |-> JStr(t)] : t \in {<<>>, <<"o", "o", "p", "s">>, <<BadByte>>}}

NoStdout == [json |-> FALSE, value |-> JStr(<<>>)]

\* The sidecar has not run, or could not be spawned.
NotRun(why) == [outcome |-> why, status |-> -1, stdout |-> NoStdout]

\* A caller asks for the sidecar's configuration.
CallGetConfig ==
    /\ pcConfig = "idle"
    /\ pcConfig' = "c_run"
    /\ sidecarRun' = NotRun("none")
    /\ configRes' = None
    /\ UNCHANGED <<home, fs, syncVars, pathVars, cmdVars, peerVars>>

\* let output = cmd.output().ok()?
ConfigRunSidecar ==
    /\ pcConfig = "c_run"
    /\ \/ /\ sidecarRun' = NotRun("spawn-failed")
          /\ configRes' = None
          /\ pcConfig' = "returned"
       \/ /\ \E status \in {0, 1}, stdout \in ConfigStdouts :
                sidecarRun' = [outcome |-> "exited", status |-> status, stdout |-> stdout]
          /\ pcConfig' = "c_status"
          /\ UNCHANGED configRes
    /\ UNCHANGED <<home, fs, syncVars, pathVars, cmdVars, peerVars>>

\* if !output.status.success() { return None }
ConfigCheckStatus ==
    /\ pcConfig = "c_status"
    /\ IF sidecarRun.status = 0
       THEN pcConfig' = "c_parse" /\ UNCHANGED configRes
       ELSE pcConfig' = "returned" /\ configRes' = None
    /\ UNCHANGED <<home, fs, sidecarRun, syncVars, pathVars, cmdVars, peerVars>>

\* serde_json::from_str(&String::from_utf8_lossy(&output.stdout)).ok()
ConfigParse ==
    /\ pcConfig = "c_parse"
    /\ configRes' = ParseConfig(sidecarRun.stdout)
    /\ pcConfig' = "returned"
    /\ UNCHANGED <<home, fs, sidecarRun, syncVars, pathVars, cmdVars, peerVars>>

\* The caller has its answer.
ConfigReturn ==
    /\ pcConfig = "returned"
    /\ pcConfig' = "idle"
    /\ UNCHANGED <<home, fs, sidecarRun, configRes, syncVars, pathVars, cmdVars, peerVars>>

InitConfig ==
    /\ home = VarNotPresent
    /\ fs = {}
    /\ SyncUnused
    /\ PathIdle
    /\ ConfigIdle
    /\ CommandIdle
    /\ PeersIdle

NextConfig ==
    \/ CallGetConfig
    \/ ConfigRunSidecar
    \/ ConfigCheckStatus
    \/ ConfigParse
    \/ ConfigReturn

SpecConfig == InitConfig /\ [][NextConfig]_vars

\* The sidecar ran; this is what it printed.
Printed == sidecarRun.stdout

SidecarRan == sidecarRun.outcome = "exited"

PrintedJson == SidecarRan /\ Printed.json

\* The document is an object that lacks server, or whose server object lacks
\* hostname or port.
MissingFields(d) ==
    /\ d.t = "obj"
    /\ \/ "server" \notin DOMAIN d.fields
       \/ /\ d.fields["server"].t = "obj"
          /\ {"hostname", "port"} \ DOMAIN d.fields["server"].fields # {}

WellTypedHostname(v) == v.t \in {"null", "str"}

WellTypedPort(v) == v.t = "null" \/ (v.t = "num" /\ ~v.neg /\ ~v.frac /\ FitsU32(v.digits))

\* Every field the document gives has the type the schema names.
WellTyped(d) ==
    /\ d.t = "obj"
    /\ "server" \in DOMAIN d.fields
         => LET sv == d.fields["server"]
            IN  \/ sv.t = "null"
                \/ /\ sv.t = "obj"
                   /\ "hostname" \in DOMAIN sv.fields => WellTypedHostname(sv.fields["hostname"])
                   /\ "port" \in DOMAIN sv.fields => WellTypedPort(sv.fields["port"])

\* The document gives server an object with a string hostname and a u32 port.
BothPresent(d) ==
    /\ WellTyped(d)
    /\ "server" \in DOMAIN d.fields
    /\ d.fields["server"].t = "obj"
    /\ {"hostname", "port"} \subseteq DOMAIN d.fields["server"].fields
    /\ d.fields["server"].fields["hostname"].t = "str"
    /\ d.fields["server"].fields["port"].t = "num"

MaxArgs == 2

\* "/bin/sh"
DefaultShell == <<"/", "b", "i", "n", "/", "s", "h">>

\* get_user_shell: std::env::var("SHELL").unwrap_or_else(|_| "/bin/sh")
GetUserShell(sh) == IF sh.tag = "Ok" THEN sh.val ELSE DefaultShell

Quote == "\""

\* The grave accent, which starts a command substitution.
Backtick == "GRAVE"

\* A command line that passes the arguments unquoted.
FormatCommand_Unquoted(path) ==
    <<Quote>> \o path \o <<Quote, " ", "$", "@">>

\* format!("\"{}\" \"$@\"", sidecar_path.display())
FormatCommand(path) ==
    <<Quote>> \o path \o <<Quote, " ", Quote, "$", "@", Quote>>

\* create_command: the program and the arguments of the Command it returns.
CreateCommand(path, isUnix, sh) ==
    IF ~isUnix
    THEN [program |-> path, argv |-> <<>>]
    ELSE [program |-> GetUserShell(sh),
          argv |-> <<<<"-", "i", "l">>, <<"-", "c">>, FormatCommand(path),
                     <<"-", "-">>>>]

\* Field splitting of an unquoted expansion: the non-empty pieces between
\* blanks of every parameter.
RECURSIVE SplitFields(_)
SplitFields(params) ==
    IF params = <<>> THEN <<>>
    ELSE SelectSeq(Split(Head(params), " "), LAMBDA f : f # <<>>)
            \o SplitFields(Tail(params))

\* The words under construction after an expansion produced `fields`: the
\* first field joins the current word, the last one stays open.
Splice(w, fields) ==
    LET n == Len(fields)
    IN  IF n = 0 THEN [w EXCEPT !.nullAt = TRUE]
        ELSE IF n = 1
        THEN [w EXCEPT !.cur = w.cur \o fields[1], !.started = TRUE]
        ELSE [w EXCEPT
                !.done = w.done \o <<w.cur \o fields[1]>> \o SubSeq(fields, 2, n - 1),
                !.cur = fields[n],
                !.started = TRUE]

\* A word ends: it counts when it has content, or is an empty quoted string
\* that no "$@" without parameters removed.
EndWord(w) ==
    [done |-> IF w.started \/ (w.quoted /\ ~w.nullAt)
              THEN Append(w.done, w.cur)
              ELSE w.done,
     cur |-> <<>>, started |-> FALSE, quoted |-> FALSE, nullAt |-> FALSE]

\* The characters a backslash escapes inside double quotes.
EscapableInQuotes == {Quote, "$", "\\", Backtick}

\* The words a POSIX shell makes of a command string, given the positional
\* parameters: double quotes, backslash escapes, "$@" and $name expansion
\* (names are unset in the model and expand to nothing), field splitting of
\* unquoted expansions.  An unterminated quote is a syntax error: no words.
RECURSIVE ShellWords(_, _, _, _, _)
ShellWords(cmd, i, inQuote, w, params) ==
    IF i > Len(cmd)
    THEN IF inQuote THEN <<>> ELSE EndWord(w).done
    ELSE
    LET c == cmd[i]
        hasNext == i < Len(cmd)
        next == IF hasNext THEN cmd[i + 1] ELSE ""
        nameLen == PrefixLen(SubSeq(cmd, i + 1, Len(cmd)), Range(IdentChars))
        literal(ch, k) ==
            ShellWords(cmd, k, inQuote,
                       [w EXCEPT !.cur = Append(w.cur, ch), !.started = TRUE], params)
    IN  CASE c = "$" /\ next = "@" ->
                ShellWords(cmd, i + 2, inQuote,
                           Splice(w, IF inQuote THEN params ELSE SplitFields(params)),
                           params)
          [] c = "$" /\ next # "@" /\ nameLen > 0 ->
                ShellWords(cmd, i + 1 + nameLen, inQuote, w, params)
          [] c = "\\" /\ hasNext /\ (~inQuote \/ next \in EscapableInQuotes) ->
                literal(next, i + 2)
          [] c = Quote ->
                ShellWords(cmd, i + 1, ~inQuote, [w EXCEPT !.quoted = TRUE], params)
          [] ~inQuote /\ IsWhitespace(c) ->
                ShellWords(cmd, i + 1, inQuote, EndWord(w), params)
          [] OTHER -> literal(c, i + 1)

NoWords ==
    [done |-> <<>>, cur |-> <<>>, started |-> FALSE, quoted |-> FALSE,
     nullAt |-> FALSE]

IsOption(arg) == arg # <<>> /\ Head(arg) = "-"

\* The number of leading arguments the shell takes as its own options.
RECURSIVE OptionCount(_)
OptionCount(argv) ==
    IF argv # <<>> /\ IsOption(Head(argv)) THEN 1 + OptionCount(Tail(argv)) ELSE 0

\* `<shell> [options] -c command_string [command_name [argument...]]`: the
\* shell runs the first word of the expanded command string with the other
\* words as its arguments.
ShellRun(argv) ==
    LET nopt == OptionCount(argv)
        hasC == \E k \in 1..nopt : "c" \in Range(Tail(argv[k]))
        rest == SubSeq(argv, nopt + 1, Len(argv))
        params == IF Len(rest) >= 2 THEN SubSeq(rest, 3, Len(rest)) ELSE <<>>
        words == IF hasC /\ rest # <<>>
                 THEN ShellWords(rest[1], 1, FALSE, NoWords, params)
                 ELSE <<>>
    IN  IF words = <<>> THEN NoExec
        ELSE [ran |-> TRUE, target |-> Head(words), args |-> Tail(words)]

\* Running the built command: directly, or through the shell.  A program
\* with an empty name cannot be spawned.
Execute(program, argv, isUnix) ==
    IF program = <<>> THEN NoExec
    ELSE IF ~isUnix THEN [ran |-> TRUE, target |-> program, args |-> argv]
    ELSE ShellRun(argv)

\* Values of SHELL.
ShellValues ==
    {VarNotPresent, VarNotUnicode, VarOk(<<>>),
     VarOk(<<"/", "b", "i", "n", "/", "z", "s", "h">>)}

\* Paths of the wrapped target.
TargetPaths ==
    {<<"/", "a", "/", "c", "l", "i">>,
     <<"/", "m", "y", " ", "a", "p", "p", "/", "c", "l", "i">>,
     <<"/", "$", "a", "/", "c", "l", "i">>,
     <<"/", "a", Quote, "/", "c", "l", "i">>}

\* Arguments a caller appends.
ArgSamples ==
    {<<"d", "e", "b", "u", "g">>,
     <<"a", " ", "b">>,
     <<"$", "x">>,
     <<"$", "@">>,
     <<"-", "c">>,
     <<Quote>>,
     <<>>}

SetShell ==
    /\ invoke.pc = "idle"
    /\ \E v \in ShellValues \ {shell} : shell' = v
    /\ UNCHANGED <<home, fs, invoke, syncVars, pathVars, configVars, peerVars>>

CallGetUserShell ==
    /\ invoke.pc = "idle"
    /\ invoke' = [NoInvoke EXCEPT !.pc = "shell", !.userShell = GetUserShell(shell)]
    /\ UNCHANGED <<home, fs, shell, syncVars, pathVars, configVars, peerVars>>

CallCreateCommand ==
    /\ invoke.pc = "idle"
    /\ \E path \in TargetPaths :
          LET cmd == CreateCommand(path, unix, shell)
          IN  invoke' = [NoInvoke EXCEPT !.pc = "built",
                                         !.target = path,
                                         !.program = cmd.program,
                                         !.argv = cmd.argv]
    /\ UNCHANGED <<home, fs, shell, syncVars, pathVars, configVars, peerVars>>

\* cmd.arg(..) by the caller of create_command
AppendArg ==
    /\ invoke.pc = "built"
    /\ Len(invoke.appended) < MaxArgs
    /\ \E a \in ArgSamples :
          invoke' = [invoke EXCEPT !.argv = Append(invoke.argv, a),
                                   !.appended = Append(invoke.appended, a)]
    /\ UNCHANGED <<home, fs, shell, syncVars, pathVars, configVars, peerVars>>

\* cmd.output() by the caller of create_command
SpawnCommand ==
    /\ invoke.pc = "built"
    /\ invoke' = [invoke EXCEPT
                    !.pc = "ran",
                    !.exec = Execute(invoke.program, invoke.argv, unix)]
    /\ UNCHANGED <<home, fs, shell, syncVars, pathVars, configVars, peerVars>>

CommandReturn ==
    /\ invoke.pc \in {"shell", "ran"}
    /\ invoke' = NoInvoke
    /\ UNCHANGED <<home, fs, shell, syncVars, pathVars, configVars, peerVars>>

InitCommand ==
    /\ home = VarNotPresent
    /\ fs = {}
    /\ debug = FALSE
    /\ unix \in BOOLEAN
    /\ appVersion = NoVersion
    /\ SyncIdle
    /\ PathIdle
    /\ ConfigIdle
    /\ PeersIdle
    /\ shell \in ShellValues
    /\ invoke = NoInvoke

NextCommand ==
    \/ SetShell
    \/ CallGetUserShell
    \/ CallCreateCommand
    \/ AppendArg
    \/ SpawnCommand
    \/ CommandReturn

SpecCommand == InitCommand /\ [][NextCommand]_vars

\* C11: get_user_shell returns the value of SHELL when it is set to a
\* non-empty value, and "/bin/sh" when SHELL is absent or set to the empty
\* string.
C11_ShellOrDefault ==
    invoke.pc = "shell"
        => invoke.userShell =
              IF shell.tag = "Ok" /\ shell.val # <<>> THEN shell.val ELSE DefaultShell

\* What the code does: any value that is set and is valid Unicode is
\* returned as it is, the empty one included.
ShellAsSet ==
    invoke.pc = "shell"
        => invoke.userShell = IF shell.tag = "Ok" THEN shell.val ELSE DefaultShell

\* The characters that keep their meaning between double quotes.
ShellSpecial == {Quote, "$", "\\", Backtick}

\* C12: on a Unix-family target the built command, with the appended
\* arguments, runs the target with every appended argument as one unchanged
\* token, in order (arguments with a space or a `$` included), and a target
\* path with spaces is run as that path.
C12_ArgumentsDelivered ==
    (/\ invoke.pc = "ran"
     /\ unix
     /\ invoke.program # <<>>
     /\ Range(invoke.target) \cap ShellSpecial = {})
        => /\ invoke.exec.ran
           /\ invoke.exec.target = invoke.target
           /\ invoke.exec.args = invoke.appended

C12_Witness ==
    /\ invoke.pc = "ran"
    /\ unix
    /\ " " \in Range(invoke.target)
    /\ invoke.appended = <<<<"a", " ", "b">>, <<"$", "x">>>>
    /\ invoke.exec = [ran |-> TRUE, target |-> invoke.target,
                      args |-> invoke.appended]

(***************************************************************************)
(* Failures of install_cli and sync_cli.                                   *)
(***************************************************************************)
\* C13: no failure inside install_cli or sync_cli is fatal to the process:
\* when the location of the running binary cannot be resolved the entry
\* point returns Err, it does not panic.
C13_NeverPanics == pc # "panicked"

\* Every failure other than the sidecar resolution is returned as Err.
C13_ErrExceptSidecar == pc = "panicked" => sidecar = "panic"

\* C14: on every return path of install_cli after the temporary script was
\* written (success, nonzero exit, set-permissions failure, spawn failure)
\* the removal of the temporary script has been attempted before the return.
C14_RemovedOnEveryReturn ==
    (InstallReturned /\ Logged("write")) => Logged("remove")

\* The returns that skip the removal are the two early ones.
C14_RemovedUnlessEarlyReturn ==
    (InstallReturned /\ Logged("write") /\ ~Logged("remove"))
        => Logged("chmod-failed") \/ Logged("run-spawn-failed")

(***************************************************************************)
(* Two application instances running install_cli at once.  They share the  *)
(* temporary directory, hence the temporary script, and the home           *)
(* directory.  Nothing fails on its own here: the platform is Unix, the    *)
(* sidecar is present, the script exits 0; the only failures are the ones  *)
(* the file system reports because of what the other instance did.         *)
(***************************************************************************)
\* Number of concurrent invocations.
MaxPeers == 2

Procs == 1..MaxPeers

PeerHome == VarOk(<<"/", "u">>)

\* An invocation that is not running.
PeerIdle == [pc |-> "idle", result |-> NoResult, overlap |-> FALSE]

\* The steps during which an invocation needs the script it wrote, and the
\* steps during which it writes, needs or deletes it.
NeedsScript == {"writing", "chmod", "run"}

UsesScript == NeedsScript \cup {"remove"}

Others(i) == Procs \ {i}

PeerAt(i, pcs) == peers.proc[i].pc \in pcs

\* execve of the script: the file is there, has its execute bit, and nobody
\* holds it open for writing.
ScriptRunnable(disk, ps, i) ==
    /\ PathExists(TempScript, disk)
    /\ ps.executable
    /\ \A j \in Procs \ {i} : ps.proc[j].pc # "writing"

PeerReturn(ps, i, r) ==
    [ps EXCEPT !.proc[i].pc = "done", !.proc[i].result = r]

PeerCall(i) ==
    /\ PeerAt(i, {"idle", "done"})
    /\ peers' = [peers EXCEPT !.proc[i] = [PeerIdle EXCEPT !.pc = "start"]]
    /\ UNCHANGED <<home, fs, syncVars, pathVars, configVars, cmdVars>>

\* std::fs::write, first half: the file is created, or truncated in place
\* (an existing file keeps its mode), and is open for writing.
PeerOpenScript(i) ==
    /\ PeerAt(i, {"start"})
    /\ fs' = fs \cup {TempScript}
    /\ peers' =
          [proc |-> [j \in Procs |->
                       IF j = i
                       THEN [peers.proc[j] EXCEPT
                               !.pc = "writing",
                               !.overlap = \E k \in Others(i) : PeerAt(k, UsesScript)]
                       ELSE IF PeerAt(j, NeedsScript)
                       THEN [peers.proc[j] EXCEPT !.overlap = TRUE]
                       ELSE peers.proc[j]],
           executable |-> peers.executable /\ PathExists(TempScript, fs)]
    /\ UNCHANGED <<home, syncVars, pathVars, configVars, cmdVars>>

\* std::fs::write, second half: the payload is written and the file closed.
PeerWriteScript(i) ==
    /\ PeerAt(i, {"writing"})
    /\ peers' = [peers EXCEPT !.proc[i].pc = "chmod"]
    /\ UNCHANGED <<home, fs, syncVars, pathVars, configVars, cmdVars>>

\* A set_permissions that leaves the script without its execute bit.
PeerSetPermissions_ReadOnly(i) ==
    /\ PeerAt(i, {"chmod"})
    /\ peers' = IF PathExists(TempScript, fs)
                THEN [peers EXCEPT !.proc[i].pc = "run", !.executable = FALSE]
                ELSE PeerReturn(peers, i,
                                Err("Failed to set script permissions: ", IoErrorText))
    /\ UNCHANGED <<home, fs, syncVars, pathVars, configVars, cmdVars>>

\* std::fs::set_permissions(&temp_script, from_mode(0o755)).map_err(..)?
PeerSetPermissions(i) ==
    /\ PeerAt(i, {"chmod"})
    /\ peers' = IF PathExists(TempScript, fs)
                THEN [peers EXCEPT !.proc[i].pc = "run", !.executable = TRUE]
                ELSE PeerReturn(peers, i,
                                Err("Failed to set script permissions: ", IoErrorText))
    /\ UNCHANGED <<home, fs, syncVars, pathVars, configVars, cmdVars>>

\* Command::new(&temp_script).arg("--binary").arg(&sidecar).output().map_err(..)?
\* The script, once started, installs the binary and exits 0.
PeerRunScript(i) ==
    /\ PeerAt(i, {"run"})
    /\ IF ScriptRunnable(fs, peers, i)
       THEN /\ fs' = fs \cup {GetCliInstallPath(home).val}
            /\ peers' = [peers EXCEPT !.proc[i].pc = "remove"]
       ELSE /\ peers' = PeerReturn(peers, i,
                                   Err("Failed to run install script: ", IoErrorText))
            /\ UNCHANGED fs
    /\ UNCHANGED <<home, syncVars, pathVars, configVars, cmdVars>>

\* let _ = std::fs::remove_file(&temp_script);
PeerRemoveScript(i) ==
    /\ PeerAt(i, {"remove"})
    /\ fs' = fs \ {TempScript}
    /\ peers' = [peers EXCEPT
                   !.proc[i].pc = "status",
                   !.executable = FALSE]
    /\ UNCHANGED <<home, syncVars, pathVars, configVars, cmdVars>>

\* The exit status was 0: Ok(install path).
PeerFinish(i) ==
    /\ PeerAt(i, {"status"})
    /\ peers' = PeerReturn(peers, i, InstalledPath(home, [status |-> 0,
                                                           stdout |-> <<>>,
                                                           stderr |-> <<>>]))
    /\ UNCHANGED <<home, fs, syncVars, pathVars, configVars, cmdVars>>

InitPeers ==
    /\ home = PeerHome
    /\ fs \in SUBSET {GetCliInstallPath(PeerHome).val}
    /\ SyncUnused
    /\ PathIdle
    /\ ConfigIdle
    /\ CommandIdle
    /\ peers = [proc |-> [i \in Procs |-> PeerIdle], executable |-> FALSE]

NextPeers ==
    \E i \in Procs :
        \/ PeerCall(i)
        \/ PeerOpenScript(i)
        \/ PeerWriteScript(i)
        \/ PeerSetPermissions(i)
        \/ PeerRunScript(i)
        \/ PeerRemoveScript(i)
        \/ PeerFinish(i)

SpecPeers == InitPeers /\ [][NextPeers]_vars

PeerDone(i) == peers.proc # <<>> /\ peers.proc[i].pc = "done"

\* C15: under every interleaving an invocation whose script would exit 0
\* returns Ok: none fails because the other deleted or rewrote the shared
\* temporary script.
C15_AlwaysOk ==
    \A i \in Procs : PeerDone(i) => peers.proc[i].result.ok

ScriptLostErrors ==
    {Err("Failed to set script permissions: ", IoErrorText),
     Err("Failed to run install script: ", IoErrorText)}

\* C15, amended: an invocation returns Ok unless another invocation was
\* between its own write and delete steps at some time between this
\* invocation's write and execute steps; then it may fail, and only at its
\* set-permissions or execute step.
C15_OkUnlessOverlapped ==
    \A i \in Procs :
        PeerDone(i)
            => \/ /\ peers.proc[i].result.ok
                  /\ peers.proc[i].result.val = GetCliInstallPath(home).val
               \/ /\ peers.proc[i].overlap
                  /\ peers.proc[i].result \in ScriptLostErrors

C15_Witness ==
    /\ PeerDone(1)
    /\ PeerDone(2)
    /\ peers.proc[1].result = Err("Failed to run install script: ", IoErrorText)
    /\ peers.proc[1].overlap
    /\ peers.proc[2].result.ok

(***************************************************************************)
(* Termination of sync_cli.  The calling thread keeps running, and every   *)
(* child process exits: each step of the running entry point is taken      *)
(* once it is enabled.  Calls, and what other processes do to the disk,    *)
(* are under no such obligation.                                           *)
(***************************************************************************)
\* A step of the running sync_cli or install_cli, the parse of the version
\* text apart.
ProgramStep ==
    \/ SyncDebugCheck
    \/ SyncInstalledCheck
    \/ SyncResolvePath
    \/ SyncRunVersion
    \/ SyncCheckStatus
    \/ SyncCompare
    \/ SyncActOnDecision
    \/ SyncAfterInstall
    \/ InstallPlatformCheck
    \/ InstallSidecarCheck
    \/ InstallWriteScript
    \/ InstallSetPermissions
    \/ InstallRunScript
    \/ InstallRemoveScript
    \/ InstallCheckStatus
    \/ InstallResolvePath

\* Weak fairness of SyncParseVersion with its enabling condition written
\* out: the step can be taken exactly when pc = "s_parse", and it leaves
\* that position.
ParseFair == []<>(pc # "s_parse") \/ []<><<SyncParseVersion>>_vars

\* The application versions explored for termination.
LiveVersions == {v \in Versions : v.minor = 0 /\ v.patch = 0 /\ v.build = <<>>}

InitLive ==
    /\ Init
    /\ appVersion \in LiveVersions

SpecLive == InitLive /\ [][Next]_vars /\ WF_vars(ProgramStep) /\ ParseFair

\* C16: a call of sync_cli always reaches a terminal state, Done with Ok or
\* Failed with Err, given that every child process it spawns exits.
C16_SyncTerminates ==
    (entry = "sync") ~> (pc = "done" /\ syncResult # NoResult)

\* Every call of sync_cli ends: by returning, or by the panic of the
\* sidecar resolution.
C16_SyncEnds ==
    (entry = "sync") ~> (pc \in {"done", "panicked"})

(***************************************************************************)
(* Absolute install paths.                                                 *)
(***************************************************************************)
\* Path::is_absolute on Unix: the path starts at the root.
IsAbsolute(path) == path # <<>> /\ Head(path) = "/"

\* C17: every path get_cli_install_path returns is absolute, for every value
\* of HOME, the empty string and relative values included.
C17_AlwaysAbsolute ==
    (pcPath = "returned_path" /\ pathRes.some) => IsAbsolute(pathRes.val)

\* The returned path is absolute exactly when the value of HOME is.
C17_AbsoluteIffHomeIs ==
    (pcPath = "returned_path" /\ pathRes.some)
        => (IsAbsolute(pathRes.val) <=> IsAbsolute(home.val))

(***************************************************************************)
(* The order of the steps of one sync_cli call.                            *)
(***************************************************************************)
\* The positions of a sync_cli call, in the order of the source text.
StepOrder ==
    <<"s_debug", "s_installed", "s_resolve", "s_version", "s_status", "s_parse",
      "s_compare", "s_decided", "i_platform", "i_sidecar", "i_write", "i_chmod",
      "i_run", "i_remove", "i_status", "i_path", "s_after_install", "done",
      "panicked">>

Rank(p) == IF p \in Range(StepOrder)
           THEN CHOOSE i \in DOMAIN StepOrder : StepOrder[i] = p
           ELSE 0

Occurrences(event) == Cardinality({i \in DOMAIN trace : trace[i] = event})

\* The events before install_cli in a call that installs.
InstallPrefix == <<"installed", "version-ran", "parsed", "install_cli">>

\* C18: within one sync_cli call the steps occur in a fixed order, each at
\* most once: debug-build check, installed check, path resolution, --version
\* execution, parse, comparison, install.  The installed binary is executed
\* only after is_cli_installed() returned true in a release build, and
\* install_cli is invoked only after a --version call that exited 0 and
\* parsed; nothing is retried.
C18_FixedOrder ==
    /\ [](entry = "sync"
            => /\ \A e \in Range(trace) : Occurrences(e) = 1
               /\ (Rank(pc) >= Rank("s_resolve") /\ Rank(pc) < Rank("done"))
                    => ~debug /\ trace # <<>> /\ trace[1] = "installed"
               /\ (Logged("version-ran") \/ Logged("version-spawn-failed"))
                    => ~debug /\ trace[1] = "installed" /\ cliPath # <<>>
               /\ pc \in {"s_parse", "s_compare"} => output.status = 0
               /\ Logged("parsed") => SubSeq(trace, 1, 3) = SubSeq(InstallPrefix, 1, 3)
               /\ Logged("install_cli")
                    => /\ Len(trace) >= 4
                       /\ SubSeq(trace, 1, 4) = InstallPrefix
                       /\ decision = "Install")
    /\ [][(entry = "sync" /\ pc' # pc /\ pc' # "idle")
            => /\ Rank(pc') > Rank(pc)
               /\ pc' = "s_parse" => output.status = 0
               /\ pc' = "i_platform" => pc = "s_decided" /\ Logged("parsed")
               /\ pc' \notin {"done", "panicked", "s_after_install", "i_platform"}
                    => Rank(pc') = Rank(pc) + 1]_vars

C18_Witness ==
    /\ SyncReturned
    /\ syncResult = Ok(<<>>)
    /\ decision = "Install"
    /\ trace = <<"installed", "version-ran", "parsed", "install_cli", "write",
                 "chmod", "run", "remove", "status">>

(***************************************************************************)
(* sync_cli while HOME may change under it: std::env::var reads the        *)
(* process environment at each call, and another thread may set or remove  *)
(* the variable between the two reads of one sync_cli call.                *)
(***************************************************************************)
\* Largest number of changes of HOME during one call.
MaxHomeChanges == 1

HomeChanges == Cardinality({i \in DOMAIN trace : trace[i] = "home-changed"})

\* HOME is set to another value, or removed, while a call is running.
HomeChange ==
    /\ pc \notin {"idle", "done", "panicked"}
    /\ HomeChanges < MaxHomeChanges
    /\ home' \in SyncHomes \ {home}
    /\ Log("home-changed")
    /\ UNCHANGED <<fs, debug, unix, appVersion, pc, entry, cliPath, output,
                   cliVersion, decision, syncResult, sidecar, scriptOut, removeOk,
                   instResult>>
    /\ UNCHANGED <<pathVars, configVars, cmdVars, peerVars>>

NextEnv ==
    \/ CallSync
    \/ SyncDebugCheck
    \/ SyncInstalledCheck
    \/ SyncResolvePath
    \/ SyncRunVersion
    \/ SyncCheckStatus
    \/ SyncParseVersion
    \/ SyncCompare
    \/ SyncActOnDecision
    \/ SyncAfterInstall
    \/ CallInstall
    \/ InstallPlatformCheck
    \/ InstallSidecarCheck
    \/ InstallWriteScript
    \/ InstallSetPermissions
    \/ InstallRunScript
    \/ InstallRemoveScript
    \/ InstallCheckStatus
    \/ InstallResolvePath
    \/ Reset
    \/ ExternalFsChange
    \/ HomeChange

\* One application version, on Unix; release and debug builds.
InitEnv ==
    /\ Init
    /\ unix
    /\ appVersion = Version(0, 0, 0, <<>>, <<>>)

SpecEnv == InitEnv /\ [][NextEnv]_vars

NoInstallPathError == Err("Could not determine CLI install path", <<>>)

\* HOME has been unset since the running call began.
HomeUnsetThroughout == home = VarNotPresent /\ HomeChanges = 0

\* C19: in a release build with HOME unset for the whole call, sync_cli
\* ends Done with Skip(not-installed) and Ok(()), never Failed; the failure
\* "Could not determine CLI install path" happens only when HOME changed
\* between the is_cli_installed() check and the path resolution after it.
C19_UnsetHomeSkips ==
    entry = "sync"
        => /\ (~debug /\ HomeUnsetThroughout)
                => /\ pc \in {"s_debug", "s_installed", "done"}
                   /\ syncResult \in {NoResult, Ok(<<>>)}
                   /\ pc = "done" => /\ syncResult = Ok(<<>>)
                                     /\ decision = "Skip(not-installed)"
                                     /\ trace = <<"not-installed">>
           /\ syncResult = NoInstallPathError
                => /\ Logged("installed")
                   /\ \E i \in DOMAIN trace :
                         /\ trace[i] = "home-changed"
                         /\ i > FirstAt("installed")
                   /\ ~Logged("version-ran")

C19_Witness ==
    /\ SyncReturned
    /\ ~debug
    /\ HomeUnsetThroughout
    /\ syncResult = Ok(<<>>)
    /\ decision = "Skip(not-installed)"

\* The failure of the path resolution does happen when HOME is removed
\* after the installed check.
C19_FailureAfterHomeChange ==
    /\ SyncReturned
    /\ syncResult = NoInstallPathError
    /\ trace = <<"installed", "home-changed">>

====
